---- MODULE Spec2Model ----
(***************************************************************************)
(* reminder-sink: the `run` pipeline (discovery result -> worker pool ->   *)
(* as_completed -> parse_result -> is_silenced -> destinations) and the    *)
(* silence store (load / add_to_file / autoprune / reset) of               *)
(* src/reminder_sink/__main__.py.                                          *)
(*                                                                         *)
(* Text is modelled as a sequence of one-character strings, so that        *)
(* strip, splitlines, partition, isnumeric, int(), the decimal formatting  *)
(* of the expiry and fnmatch are computed, not assumed.                    *)
(***************************************************************************)
EXTENDS Integers, Sequences, FiniteSets, TLC

VARIABLES
    file,        \* the silent file: [exists, text]
    clock,       \* time.time(), in ticks of 1/TicksPerSecond second
    cmds,        \* number of `silence` commands run so far
    last,        \* history: the last `silence` command and what it did
    listed,      \* what `silence list` printed last
    pc,          \* position of the `run` command
    cpu_count,   \* --cpu-count
    autoprune,   \* --autoprune
    fileArg,     \* --file: "none", "-" (stdout again) or "f" (another file)
    scripts,     \* find_execs(): the discovered descriptors, in discovery order
    silenced,    \* run: list(sf.load())
    files,       \* run: the destinations, in write order
    nextIdx,     \* run_parallel_scripts: index of the next descriptor of the for loop
    queue,       \* ThreadPoolExecutor: submitted work items no worker has taken
    running,     \* work items a worker thread is executing (child in flight)
    spawned,     \* history: number of child processes spawned for each descriptor
    completed,   \* history: descriptors in the order their futures finished
    retrieved,   \* descriptors in the order as_completed yielded their futures
    lines,       \* parse_result(future.result()) of each retrieved descriptor
    out,         \* what was written to each destination, line by line
    flushed,     \* run: the final flush of the destinations was done
    proc,        \* Script.run at the grain of the pipes: one call and its child
    wlog         \* history: every write, in order: <<destination, line>>

vars == <<file, clock, cmds, last, listed, pc, cpu_count, autoprune, fileArg,
          scripts, silenced, files, nextIdx, queue, running, spawned,
          completed, retrieved, lines, out, flushed, proc, wlog>>

storeVars == <<file, clock, cmds, last, listed>>

runVars == <<pc, cpu_count, autoprune, fileArg, scripts, silenced, files,
             nextIdx, queue, running, spawned, completed, retrieved, lines,
             out, flushed, proc, wlog>>

----------------------------------------------------------------------------
(* Bounds of the model *)

MaxScripts == 3
MaxCpu == 2
MaxClock == 4
MaxCmds == 2
MaxOutput == 3
PipeCapacity == 2
TicksPerSecond == 2

----------------------------------------------------------------------------
(* Text *)

Whitespace == {" ", "\n"}

DigitChars == <<"0", "1", "2", "3", "4", "5", "6", "7", "8", "9">>

RECURSIVE lstrip(_)
lstrip(s) ==
    IF s # <<>> /\ Head(s) \in Whitespace THEN lstrip(Tail(s)) ELSE s

RECURSIVE rstrip(_)
rstrip(s) ==
    IF s # <<>> /\ s[Len(s)] \in Whitespace
    THEN rstrip(SubSeq(s, 1, Len(s) - 1))
    ELSE s

strip(s) == rstrip(lstrip(s))

\* index of the first occurrence of character c in s, 0 if there is none
find(s, c) ==
    IF \E i \in 1..Len(s) : s[i] = c
    THEN CHOOSE i \in 1..Len(s) : s[i] = c /\ \A j \in 1..(i - 1) : s[j] # c
    ELSE 0

RECURSIVE splitlines(_)
splitlines(s) ==
    IF s = <<>> THEN <<>>
    ELSE LET i == find(s, "\n") IN
         IF i = 0 THEN <<s>>
         ELSE <<SubSeq(s, 1, i - 1)>> \o splitlines(SubSeq(s, i + 1, Len(s)))

\* str.partition(":"): the text before the first ":" and the text after it
partition(s) ==
    LET i == find(s, ":") IN
    IF i = 0 THEN [match |-> s, epoch |-> <<>>]
    ELSE [match |-> SubSeq(s, 1, i - 1), epoch |-> SubSeq(s, i + 1, Len(s))]

isnumeric(s) ==
    /\ s # <<>>
    /\ \A i \in 1..Len(s) : \E d \in 1..10 : DigitChars[d] = s[i]

DigitValue(c) == (CHOOSE d \in 1..10 : DigitChars[d] = c) - 1

RECURSIVE int(_)
int(s) ==
    IF s = <<>> THEN 0
    ELSE 10 * int(SubSeq(s, 1, Len(s) - 1)) + DigitValue(s[Len(s)])

RECURSIVE FormatNat(_)
FormatNat(n) ==
    IF n < 10 THEN <<DigitChars[n + 1]>>
    ELSE FormatNat(n \div 10) \o <<DigitChars[(n % 10) + 1]>>

\* f"{n}" of an integer
FormatInt(n) == IF n < 0 THEN <<"-">> \o FormatNat(-n) ELSE FormatNat(n)

\* fnmatch.fnmatch(name, pat) on POSIX, for patterns of literals, "*" and "?"
RECURSIVE fnmatch(_, _)
fnmatch(name, pat) ==
    IF pat = <<>> THEN name = <<>>
    ELSE IF Head(pat) = "*"
         THEN \/ fnmatch(name, Tail(pat))
              \/ name # <<>> /\ fnmatch(Tail(name), pat)
    ELSE IF Head(pat) = "?"
         THEN name # <<>> /\ fnmatch(Tail(name), Tail(pat))
    ELSE name # <<>> /\ Head(name) = Head(pat) /\ fnmatch(Tail(name), Tail(pat))

----------------------------------------------------------------------------
(* The silence store *)

\* int(time.time())
Now == clock \div TicksPerSecond

NoFile == [exists |-> FALSE, text |-> <<>>]

\* silenced_line_is_active with the entry dropped in its last second already
silenced_line_is_active_early(line, curtime) ==
    LET p == partition(line) IN
    IF ~isnumeric(p.epoch) THEN <<>>
    ELSE IF curtime >= int(p.epoch) THEN <<>>
    ELSE <<p.match>>

silenced_line_is_active(line, curtime) ==
    LET p == partition(line) IN
    IF ~isnumeric(p.epoch) THEN <<>>
    ELSE IF curtime > int(p.epoch) THEN <<>>
    ELSE <<p.match>>

\* the lines `for line in self.file.open("r")` yields, without their newline
FileLines(text) == splitlines(text)

\* the body of load's for loop, over the lines ls: an empty stripped line and
\* a falsy result of silenced_line_is_active (None or "") yield nothing
RECURSIVE LoadLines(_, _)
LoadLines(ls, curtime) ==
    IF ls = <<>> THEN <<>>
    ELSE LET l == strip(Head(ls))
             active == silenced_line_is_active(l, curtime)
         IN  (IF l # <<>> /\ active # <<>> /\ active[1] # <<>>
              THEN active
              ELSE <<>>) \o LoadLines(Tail(ls), curtime)

\* SilentFile.load at the current clock
load(f) == IF ~f.exists THEN <<>> ELSE LoadLines(FileLines(f.text), Now)

\* autoprune without its first check: it ignores the active patterns
autoprune_file_ignores_active(f, sil) ==
    IF ~f.exists THEN f
    ELSE IF strip(f.text) = <<>> THEN f
    ELSE NoFile

\* SilentFile.autoprune: the file it leaves
autoprune_file(f, sil) ==
    IF Len(sil) > 0 THEN f
    ELSE IF ~f.exists THEN f
    ELSE IF strip(f.text) = <<>> THEN f
    ELSE NoFile

\* add_to_file raises ValueError
InvalidPattern(name) ==
    \/ \E i \in 1..Len(name) : name[i] = ":"
    \/ strip(name) = <<>>

\* int(x) of the float x = a / b: truncation towards zero
TruncDiv(a, b) == IF a >= 0 THEN a \div b ELSE -((-a) \div b)

\* int(time.time() + duration)
ExpiresAt(duration) ==
    TruncDiv(clock + TicksPerSecond * duration, TicksPerSecond)

\* the text add_to_file writes
AddedLine(name, duration) ==
    name \o <<":">> \o FormatInt(ExpiresAt(duration)) \o <<"\n">>

\* SilentFile.add_to_file: the file it leaves when it does not raise
add_to_file(f, name, duration) ==
    [exists |-> TRUE, text |-> f.text \o AddedLine(name, duration)]

----------------------------------------------------------------------------
(* The silence commands *)

\* the NAME arguments tried
Names ==
    { <<"a">>, <<"x", "*">>, <<" ", "a">>, <<"a", "\n", "b">>,
      <<"a", ":">>, <<" ">>, <<>> }

\* the --duration arguments tried
Durations == {-1, 0, 1, 10}

\* silent files a command may find: none, an empty one, one active entry, and
\* an entry expiring after second 0 followed by a blank and a malformed line
EmptyFile == [exists |-> TRUE, text |-> <<>>]

ActiveFile == [exists |-> TRUE, text |-> <<"x", "*", ":", "9", "\n">>]

ExpiringFile ==
    [exists |-> TRUE, text |-> <<"a", ":", "0", "\n", "\n", "z", "\n">>]

\* a file of whitespace only
BlankFile == [exists |-> TRUE, text |-> <<"\n", " ", "\n">>]

InitFiles == {NoFile, EmptyFile, BlankFile, ActiveFile, ExpiringFile}

NoCommand ==
    [cmd |-> "none", name |-> <<>>, duration |-> 0, at |-> 0, expires |-> 0,
     status |-> 0, before |-> NoFile]

\* `silence add -d duration name`
SilenceAdd(name, duration) ==
    /\ cmds < MaxCmds
    /\ cmds' = cmds + 1
    /\ IF InvalidPattern(name)
       THEN /\ file' = file
            /\ last' = [cmd |-> "add", name |-> name, duration |-> duration,
                        at |-> Now, expires |-> ExpiresAt(duration),
                        status |-> 1, before |-> file]
       ELSE /\ file' = add_to_file(file, name, duration)
            /\ last' = [cmd |-> "add", name |-> name, duration |-> duration,
                        at |-> Now, expires |-> ExpiresAt(duration),
                        status |-> 0, before |-> file]
    /\ UNCHANGED <<clock, listed>>

\* `silence list`
SilenceList ==
    /\ cmds < MaxCmds
    /\ cmds' = cmds + 1
    /\ listed' = load(file)
    /\ last' = [cmd |-> "list", name |-> <<>>, duration |-> 0, at |-> Now,
                expires |-> 0, status |-> 0, before |-> file]
    /\ UNCHANGED <<file, clock>>

\* `silence reset [--if-expired]`
SilenceReset(if_expired) ==
    /\ cmds < MaxCmds
    /\ cmds' = cmds + 1
    /\ file' = IF if_expired THEN autoprune_file(file, load(file)) ELSE NoFile
    /\ last' = [cmd |-> IF if_expired THEN "reset-if-expired" ELSE "reset",
                name |-> <<>>, duration |-> 0, at |-> Now, expires |-> 0,
                status |-> 0, before |-> file]
    /\ UNCHANGED <<clock, listed>>

\* time passes
Tick ==
    /\ clock < MaxClock
    /\ clock' = clock + 1
    /\ UNCHANGED <<file, cmds, last, listed>>

----------------------------------------------------------------------------
(* Scripts *)

\* index of the last occurrence of character c in s, 0 if there is none
rfind(s, c) ==
    IF \E i \in 1..Len(s) : s[i] = c
    THEN CHOOSE i \in 1..Len(s) : s[i] = c /\ \A j \in (i + 1)..Len(s) : s[j] # c
    ELSE 0

\* Path.stem: the file name without its last suffix
stem(f) ==
    LET i == rfind(f, ".") IN
    IF 1 < i /\ i < Len(f) THEN SubSeq(f, 1, i - 1) ELSE f

\* Script.name
name(script) == stem(script.path.file)

\* The files the search path may hold. path and enabled are the Script
\* descriptor; kind, exitcode and output are what running the file does:
\* it exits ("exit"), run() raises before a child exists ("raise"), or the
\* child never terminates ("hang").
Catalog ==
    << [path |-> [dir |-> 1, file |-> <<"a">>], enabled |-> TRUE,
        kind |-> "exit", exitcode |-> 2, output |-> <<"x", "\n">>],
       [path |-> [dir |-> 1, file |-> <<"a", ".", "s">>], enabled |-> TRUE,
        kind |-> "exit", exitcode |-> 2, output |-> <<>>],
       [path |-> [dir |-> 1, file |-> <<"b">>], enabled |-> TRUE,
        kind |-> "exit", exitcode |-> 3,
        output |-> <<"a", "\n", "\n", "x", "\n">>],
       [path |-> [dir |-> 1, file |-> <<"c">>], enabled |-> TRUE,
        kind |-> "exit", exitcode |-> 3, output |-> <<"x", "\n", "y">>],
       [path |-> [dir |-> 1, file |-> <<"d">>], enabled |-> TRUE,
        kind |-> "exit", exitcode |-> 0, output |-> <<"x">>],
       [path |-> [dir |-> 2, file |-> <<"e">>], enabled |-> TRUE,
        kind |-> "exit", exitcode |-> 1, output |-> <<"x">>],
       [path |-> [dir |-> 2, file |-> <<"k">>], enabled |-> TRUE,
        kind |-> "exit", exitcode |-> -9, output |-> <<"y">>],
       [path |-> [dir |-> 2, file |-> <<"f">>], enabled |-> TRUE,
        kind |-> "raise", exitcode |-> 0, output |-> <<>>],
       [path |-> [dir |-> 2, file |-> <<"h">>], enabled |-> TRUE,
        kind |-> "hang", exitcode |-> 0, output |-> <<>>],
       [path |-> [dir |-> 2, file |-> <<"n">>], enabled |-> FALSE,
        kind |-> "exit", exitcode |-> 2, output |-> <<>>] >>

Min(S) == CHOOSE m \in S : \A n \in S : m <= n

RECURSIVE Discovered(_)
Discovered(S) ==
    IF S = {} THEN <<>>
    ELSE <<Catalog[Min(S)]>> \o Discovered(S \ {Min(S)})

\* the results find_execs() may give: at most MaxScripts files of the catalog
Discoveries ==
    { Discovered(S) : S \in { T \in SUBSET (1..Len(Catalog)) :
                              Cardinality(T) <= MaxScripts } }

\* Script.run: the Result a terminating child gives
Script_run(script) ==
    [name |-> name(script), exitcode |-> script.exitcode,
     output |-> script.output]

\* parse_result with exit code 2 treated like exit code 3
parse_result_code2_prints_output(res) ==
    CASE res.exitcode = 0 -> <<>>
      [] res.exitcode \in {2, 3} -> splitlines(strip(res.output))
      [] OTHER -> <<>>

parse_result(res) ==
    CASE res.exitcode = 0 -> <<>>
      [] res.exitcode = 2 -> <<res.name>>
      [] res.exitcode = 3 -> splitlines(strip(res.output))
      [] OTHER -> <<>>

\* is_silenced with the arguments of fnmatch exchanged
is_silenced_swapped(line, sil) == \E k \in 1..Len(sil) : fnmatch(sil[k], line)

\* SilentFile.is_silenced
is_silenced(line, sil) == \E k \in 1..Len(sil) : fnmatch(line, sil[k])

Range(q) == { q[k] : k \in 1..Len(q) }

Destinations == {"stdout", "f"}

\* write_results, lines 262-263: one line to every destination of fs, in order
RECURSIVE WriteLine(_, _, _)
WriteLine(o, line, fs) ==
    IF fs = <<>> THEN o
    ELSE WriteLine([o EXCEPT ![Head(fs)] = Append(@, line)], line, Tail(fs))

\* a loop that writes the lines of one result last line first
RECURSIVE WriteLines_reversed(_, _, _, _)
WriteLines_reversed(o, ls, fs, sil) ==
    IF ls = <<>> THEN o
    ELSE LET rest == WriteLines_reversed(o, Tail(ls), fs, sil) IN
         IF is_silenced(Head(ls), sil) THEN rest
         ELSE WriteLine(rest, Head(ls), fs)

\* write_results, lines 260-263: the lines of one result
RECURSIVE WriteLines(_, _, _, _)
WriteLines(o, ls, fs, sil) ==
    IF ls = <<>> THEN o
    ELSE WriteLines(IF is_silenced(Head(ls), sil) THEN o
                    ELSE WriteLine(o, Head(ls), fs),
                    Tail(ls), fs, sil)

\* the writes of WriteLine, one after the other
LogLine(w, line, fs) == w \o [k \in 1..Len(fs) |-> <<fs[k], line>>]

\* the writes of WriteLines, one after the other
RECURSIVE LogLines(_, _, _, _)
LogLines(w, ls, fs, sil) ==
    IF ls = <<>> THEN w
    ELSE LogLines(IF is_silenced(Head(ls), sil) THEN w
                  ELSE LogLine(w, Head(ls), fs),
                  Tail(ls), fs, sil)

----------------------------------------------------------------------------
(* Script.run and its child process, at the grain of the two pipes. What the
   child writes is counted in units; a pipe holds at most PipeCapacity units,
   and a write to a full pipe blocks until the parent reads. *)

NoProc ==
    [pc |-> "none", alive |-> FALSE, toOut |-> 0, toErr |-> 0, pipeOut |-> 0,
     pipeErr |-> 0, output |-> 0, logged |-> 0]

\* the calls of Script.run tried: the child is to write nOut units to its
\* standard output and nErr units to its standard error, then to exit
Calls_run ==
    { [NoProc EXCEPT !.pc = "start", !.toOut = nOut, !.toErr = nErr] :
        nOut \in 0..MaxOutput, nErr \in 0..MaxOutput }

\* lines 172-177: subprocess.Popen with both streams redirected to pipes
Popen ==
    /\ proc.pc = "start"
    /\ proc' = [proc EXCEPT !.pc = "wait", !.alive = TRUE]

\* the child writes one unit to its standard output, if the pipe has room
ChildWriteStdout ==
    /\ proc.alive
    /\ proc.toOut > 0
    /\ proc.pipeOut < PipeCapacity
    /\ proc' = [proc EXCEPT !.toOut = @ - 1, !.pipeOut = @ + 1]

\* the child writes one unit to its standard error, if the pipe has room
ChildWriteStderr ==
    /\ proc.alive
    /\ proc.toErr > 0
    /\ proc.pipeErr < PipeCapacity
    /\ proc' = [proc EXCEPT !.toErr = @ - 1, !.pipeErr = @ + 1]

\* the child has written everything and exits
ChildExit ==
    /\ proc.alive
    /\ proc.toOut = 0
    /\ proc.toErr = 0
    /\ proc' = [proc EXCEPT !.alive = FALSE]

\* line 178: proc.wait() returns once the child has terminated
proc_wait ==
    /\ proc.pc = "wait"
    /\ ~proc.alive
    /\ proc' = [proc EXCEPT !.pc = "read"]

\* line 180: proc.stdout.read() takes what the pipe holds, and returns at the
\* end of file, which is when the pipe is empty and the child has closed it
stdout_read ==
    /\ proc.pc = "read"
    /\ IF proc.pipeOut > 0
       THEN proc' = [proc EXCEPT !.output = @ + 1, !.pipeOut = @ - 1]
       ELSE /\ ~proc.alive
            /\ proc' = [proc EXCEPT !.pc = "drain"]

\* lines 183-184: the loop over proc.stderr, to the end of file
stderr_drain ==
    /\ proc.pc = "drain"
    /\ IF proc.pipeErr > 0
       THEN proc' = [proc EXCEPT !.logged = @ + 1, !.pipeErr = @ - 1]
       ELSE /\ ~proc.alive
            /\ proc' = [proc EXCEPT !.pc = "returned"]

----------------------------------------------------------------------------
(* The run command *)

InFlight == running

\* a pool that creates one worker thread too many
WorkerAvailable_off_by_one == Cardinality(running) <= cpu_count

\* ThreadPoolExecutor(max_workers=cpu_count): a worker thread is idle or may
\* still be created
WorkerAvailable == Cardinality(running) < cpu_count

Submitted == { i \in 1..Len(scripts) : i < nextIdx /\ scripts[i].enabled }

\* run, lines 364-365: silenced = list(sf.load())
RunLoad ==
    /\ pc = "load"
    /\ silenced' = load(file)
    /\ pc' = "prepare"
    /\ UNCHANGED <<storeVars, proc, wlog, cpu_count, autoprune, fileArg,
                   scripts, files, nextIdx, queue, running, spawned,
                   completed, retrieved, lines, out, flushed>>

\* a run that appends the --file stream without looking at its name
RunPrepare_appends_any ==
    /\ pc = "prepare"
    /\ file' = IF autoprune THEN autoprune_file(file, silenced) ELSE file
    /\ files' = CASE fileArg = "f" -> <<"stdout", "f">>
                  [] fileArg = "-" -> <<"stdout", "stdout">>
                  [] OTHER -> <<"stdout">>
    /\ pc' = "pool"
    /\ UNCHANGED <<clock, cmds, last, listed, proc, wlog, cpu_count,
                   autoprune, fileArg, scripts, silenced, nextIdx, queue,
                   running, spawned, completed, retrieved, lines, out,
                   flushed>>

\* run, lines 366-379: the autoprune and the list of destinations
RunPrepare ==
    /\ pc = "prepare"
    /\ file' = IF autoprune THEN autoprune_file(file, silenced) ELSE file
    /\ files' = IF fileArg = "f" THEN <<"stdout", "f">> ELSE <<"stdout">>
    /\ pc' = "pool"
    /\ UNCHANGED <<clock, cmds, last, listed, proc, wlog, cpu_count,
                   autoprune, fileArg, scripts, silenced, nextIdx, queue,
                   running, spawned, completed, retrieved, lines, out,
                   flushed>>

\* run_parallel_scripts, line 226: the pool is created when as_completed
\* first advances the generator; max_workers <= 0 raises ValueError
PoolCreate ==
    /\ pc = "pool"
    /\ pc' = IF cpu_count <= 0 THEN "failed" ELSE "submit"
    /\ UNCHANGED <<storeVars, proc, wlog, cpu_count, autoprune, fileArg,
                   scripts, silenced, files, nextIdx, queue, running, spawned,
                   completed, retrieved, lines, out, flushed>>

\* a for loop that submits every descriptor, enabled or not
Submit_ignores_enabled ==
    /\ pc = "submit"
    /\ nextIdx <= Len(scripts)
    /\ queue' = Append(queue, nextIdx)
    /\ nextIdx' = nextIdx + 1
    /\ UNCHANGED <<storeVars, proc, wlog, pc, cpu_count, autoprune, fileArg,
                   scripts, silenced, files, running, spawned, completed,
                   retrieved, lines, out, flushed>>

\* run_parallel_scripts, lines 227-231: one descriptor of the for loop
Submit ==
    /\ pc = "submit"
    /\ nextIdx <= Len(scripts)
    /\ queue' = IF scripts[nextIdx].enabled THEN Append(queue, nextIdx)
                ELSE queue
    /\ nextIdx' = nextIdx + 1
    /\ UNCHANGED <<storeVars, proc, wlog, pc, cpu_count, autoprune, fileArg,
                   scripts, silenced, files, running, spawned, completed,
                   retrieved, lines, out, flushed>>

\* a worker thread takes the oldest queued work item and calls Script.run
WorkerStart ==
    /\ pc = "submit"
    /\ queue # <<>>
    /\ WorkerAvailable
    /\ running' = running \cup {Head(queue)}
    /\ queue' = Tail(queue)
    /\ spawned' = [spawned EXCEPT ![Head(queue)] =
                      IF scripts[Head(queue)].kind = "raise" THEN @ ELSE @ + 1]
    /\ UNCHANGED <<storeVars, proc, wlog, pc, cpu_count, autoprune, fileArg,
                   scripts, silenced, files, nextIdx, completed, retrieved,
                   lines, out, flushed>>

\* a worker that writes the lines of its own Result to the destinations
WorkerFinish_writes(i) ==
    /\ i \in running
    /\ scripts[i].kind # "hang"
    /\ running' = running \ {i}
    /\ completed' = Append(completed, i)
    /\ out' = IF scripts[i].kind = "exit" /\ files # <<>>
              THEN WriteLines(out, parse_result(Script_run(scripts[i])),
                              files, silenced)
              ELSE out
    /\ wlog' = IF scripts[i].kind = "exit"
               THEN LogLines(wlog, parse_result(Script_run(scripts[i])),
                             files, silenced)
               ELSE wlog
    /\ UNCHANGED <<storeVars, proc, pc, cpu_count, autoprune, fileArg,
                   scripts, silenced, files, nextIdx, queue, spawned,
                   retrieved, lines, flushed>>

\* Script.run returns or raises: the future of work item i is finished
WorkerFinish(i) ==
    /\ i \in running
    /\ scripts[i].kind # "hang"
    /\ running' = running \ {i}
    /\ completed' = Append(completed, i)
    /\ UNCHANGED <<storeVars, proc, wlog, pc, cpu_count, autoprune, fileArg,
                   scripts, silenced, files, nextIdx, queue, spawned,
                   retrieved, lines, out, flushed>>

\* a pool that is left without waiting for the work items in flight
Shutdown_nowait ==
    /\ pc = "submit"
    /\ nextIdx > Len(scripts)
    /\ pc' = "consume"
    /\ UNCHANGED <<storeVars, proc, wlog, cpu_count, autoprune, fileArg,
                   scripts, silenced, files, nextIdx, queue, running, spawned,
                   completed, retrieved, lines, out, flushed>>

\* run_parallel_scripts, line 226: the for loop is over and the `with` block
\* leaves through executor.shutdown(wait=True), which returns when every
\* submitted work item is finished; only then has as_completed its set(fs)
Shutdown ==
    /\ pc = "submit"
    /\ nextIdx > Len(scripts)
    /\ queue = <<>>
    /\ running = {}
    /\ pc' = "consume"
    /\ UNCHANGED <<storeVars, proc, wlog, cpu_count, autoprune, fileArg,
                   scripts, silenced, files, nextIdx, queue, running, spawned,
                   completed, retrieved, lines, out, flushed>>

\* the futures as_completed may yield next: every future is finished and is
\* held in a set, which iterates in the order of the objects' addresses
Yieldable == Range(completed) \ Range(retrieved)

\* an iteration of the loop that reads the silent file again for its filter
Consume_reloads(i) ==
    /\ pc = "consume"
    /\ i \in Yieldable
    /\ retrieved' = Append(retrieved, i)
    /\ IF scripts[i].kind = "raise"
       THEN /\ pc' = "failed"
            /\ UNCHANGED <<lines, out, wlog>>
       ELSE /\ lines' = [lines EXCEPT ![i] = parse_result(Script_run(scripts[i]))]
            /\ out' = WriteLines(out, parse_result(Script_run(scripts[i])),
                                 files, load(file))
            /\ wlog' = LogLines(wlog, parse_result(Script_run(scripts[i])),
                                files, load(file))
            /\ pc' = pc
    /\ UNCHANGED <<storeVars, proc, cpu_count, autoprune, fileArg, scripts,
                   silenced, files, nextIdx, queue, running, spawned,
                   completed, flushed>>

\* write_results, lines 258-263: one iteration of the loop over as_completed
Consume(i) ==
    /\ pc = "consume"
    /\ i \in Yieldable
    /\ retrieved' = Append(retrieved, i)
    /\ IF scripts[i].kind = "raise"
       THEN /\ pc' = "failed"
            /\ UNCHANGED <<lines, out, wlog>>
       ELSE /\ lines' = [lines EXCEPT ![i] = parse_result(Script_run(scripts[i]))]
            /\ out' = WriteLines(out, parse_result(Script_run(scripts[i])),
                                 files, silenced)
            /\ wlog' = LogLines(wlog, parse_result(Script_run(scripts[i])),
                                files, silenced)
            /\ pc' = pc
    /\ UNCHANGED <<storeVars, proc, cpu_count, autoprune, fileArg, scripts,
                   silenced, files, nextIdx, queue, running, spawned,
                   completed, flushed>>

\* run, lines 386-387: write_results returned
Flush ==
    /\ pc = "consume"
    /\ Yieldable = {}
    /\ flushed' = TRUE
    /\ pc' = "done"
    /\ UNCHANGED <<storeVars, proc, wlog, cpu_count, autoprune, fileArg,
                   scripts, silenced, files, nextIdx, queue, running, spawned,
                   completed, retrieved, lines, out>>

----------------------------------------------------------------------------
(* Specifications *)

\* the silent file, the time and the --autoprune flag a `run` invocation may
\* start with: no file, an active entry (with --autoprune, which keeps the
\* file), and an entry that expires between second 0 and the last (with
\* --autoprune after its expiry, which deletes the file)
RunStores ==
    { [file |-> NoFile, clock |-> 0, autoprune |-> FALSE],
      [file |-> ActiveFile, clock |-> 0, autoprune |-> TRUE],
      [file |-> ExpiringFile, clock |-> 0, autoprune |-> FALSE],
      [file |-> ExpiringFile, clock |-> MaxClock, autoprune |-> TRUE] }

\* one `run` invocation
Init ==
    /\ \E st \in RunStores :
          file = st.file /\ clock = st.clock /\ autoprune = st.autoprune
    /\ cmds = 0
    /\ last = NoCommand
    /\ listed = <<>>
    /\ pc = "load"
    /\ cpu_count \in 0..MaxCpu
    /\ fileArg \in {"none", "-", "f"}
    /\ scripts \in Discoveries
    /\ silenced = <<>>
    /\ files = <<>>
    /\ nextIdx = 1
    /\ queue = <<>>
    /\ running = {}
    /\ spawned = [i \in 1..Len(scripts) |-> 0]
    /\ completed = <<>>
    /\ retrieved = <<>>
    /\ lines = [i \in 1..Len(scripts) |-> <<>>]
    /\ out = [d \in Destinations |-> <<>>]
    /\ flushed = FALSE
    /\ proc = NoProc
    /\ wlog = <<>>

Next ==
    \/ RunLoad
    \/ RunPrepare
    \/ PoolCreate
    \/ Submit
    \/ WorkerStart
    \/ \E i \in 1..Len(scripts) : WorkerFinish(i)
    \/ Shutdown
    \/ \E i \in 1..Len(scripts) : Consume(i)
    \/ Flush

Spec == Init /\ [][Next]_vars

\* the main thread and the worker threads are scheduled by the operating
\* system: a step that stays possible is eventually taken
Fairness ==
    /\ WF_vars(RunLoad)
    /\ WF_vars(RunPrepare)
    /\ WF_vars(PoolCreate)
    /\ WF_vars(Submit)
    /\ WF_vars(WorkerStart)
    /\ WF_vars(\E i \in 1..Len(scripts) : WorkerFinish(i))
    /\ WF_vars(Shutdown)
    /\ WF_vars(\E i \in 1..Len(scripts) : Consume(i))
    /\ WF_vars(Flush)

\* the runs with no silent file, the primary stream only and a full pool
FairInit ==
    /\ Init
    /\ file = NoFile
    /\ autoprune = FALSE
    /\ fileArg = "none"
    /\ cpu_count = MaxCpu

FairSpec == FairInit /\ [][Next]_vars /\ Fairness

\* the silence commands, one after the other, as time passes
StoreInit ==
    /\ file \in InitFiles
    /\ clock = 0
    /\ cmds = 0
    /\ last = NoCommand
    /\ listed = <<>>
    /\ pc = "idle"
    /\ cpu_count = 1
    /\ autoprune = FALSE
    /\ fileArg = "none"
    /\ scripts = <<>>
    /\ silenced = <<>>
    /\ files = <<>>
    /\ nextIdx = 1
    /\ queue = <<>>
    /\ running = {}
    /\ spawned = <<>>
    /\ completed = <<>>
    /\ retrieved = <<>>
    /\ lines = <<>>
    /\ out = [d \in Destinations |-> <<>>]
    /\ flushed = FALSE
    /\ proc = NoProc
    /\ wlog = <<>>

StoreNext ==
    \/ /\ \E n \in Names, d \in Durations : SilenceAdd(n, d)
       /\ UNCHANGED runVars
    \/ /\ SilenceList
       /\ UNCHANGED runVars
    \/ /\ \E e \in BOOLEAN : SilenceReset(e)
       /\ UNCHANGED runVars
    \/ /\ Tick
       /\ UNCHANGED runVars

StoreSpec == StoreInit /\ [][StoreNext]_vars

\* the patterns and durations another invocation adds during a run
RaceNames == { <<"a">>, <<"x", "*">> }

RaceDurations == {0, 10}

\* the scripts of the run other invocations interleave with: b and c exit
\* with code 3 and print the lines a, x and x, y
RaceScripts == { Discovered({3, 4}) }

\* one `run` invocation while other invocations add and reset and time passes
RaceInit ==
    /\ file \in InitFiles
    /\ clock = 0
    /\ cmds = 0
    /\ last = NoCommand
    /\ listed = <<>>
    /\ pc = "load"
    /\ cpu_count = MaxCpu
    /\ autoprune \in BOOLEAN
    /\ fileArg = "none"
    /\ scripts \in RaceScripts
    /\ silenced = <<>>
    /\ files = <<>>
    /\ nextIdx = 1
    /\ queue = <<>>
    /\ running = {}
    /\ spawned = [i \in 1..Len(scripts) |-> 0]
    /\ completed = <<>>
    /\ retrieved = <<>>
    /\ lines = [i \in 1..Len(scripts) |-> <<>>]
    /\ out = [d \in Destinations |-> <<>>]
    /\ flushed = FALSE
    /\ proc = NoProc
    /\ wlog = <<>>

RaceNext ==
    \/ Next
    \/ /\ \E n \in RaceNames, d \in RaceDurations : SilenceAdd(n, d)
       /\ UNCHANGED runVars
    \/ /\ \E e \in BOOLEAN : SilenceReset(e)
       /\ UNCHANGED runVars
    \/ /\ Tick
       /\ UNCHANGED runVars

RaceSpec == RaceInit /\ [][RaceNext]_vars

\* one call of Script.run and the child it starts
PipeInit ==
    /\ file = NoFile
    /\ clock = 0
    /\ cmds = 0
    /\ last = NoCommand
    /\ listed = <<>>
    /\ pc = "idle"
    /\ cpu_count = 1
    /\ autoprune = FALSE
    /\ fileArg = "none"
    /\ scripts = <<>>
    /\ silenced = <<>>
    /\ files = <<>>
    /\ nextIdx = 1
    /\ queue = <<>>
    /\ running = {}
    /\ spawned = <<>>
    /\ completed = <<>>
    /\ retrieved = <<>>
    /\ lines = <<>>
    /\ out = [d \in Destinations |-> <<>>]
    /\ flushed = FALSE
    /\ proc \in Calls_run
    /\ wlog = <<>>

PipeVars ==
    <<storeVars, wlog, pc, cpu_count, autoprune, fileArg, scripts, silenced, files,
      nextIdx, queue, running, spawned, completed, retrieved, lines, out,
      flushed>>

PipeNext ==
    \/ Popen /\ UNCHANGED PipeVars
    \/ ChildWriteStdout /\ UNCHANGED PipeVars
    \/ ChildWriteStderr /\ UNCHANGED PipeVars
    \/ ChildExit /\ UNCHANGED PipeVars
    \/ proc_wait /\ UNCHANGED PipeVars
    \/ stdout_read /\ UNCHANGED PipeVars
    \/ stderr_drain /\ UNCHANGED PipeVars

PipeSpec == PipeInit /\ [][PipeNext]_vars

----------------------------------------------------------------------------
(* Properties *)

\* position of x in the sequence q, 0 if x is not in it
Pos(q, x) == IF x \in Range(q) THEN CHOOSE k \in 1..Len(q) : q[k] = x ELSE 0

\* the retrieved descriptors whose Result reached parse_result
Classified == { i \in Range(retrieved) : scripts[i].kind = "exit" }

\* the enabled descriptors, whether submitted yet or not
Enabled == { i \in 1..Len(scripts) : scripts[i].enabled }

Matches(line, sil) == \E p \in Range(sil) : fnmatch(line, p)

\* the lines the classifier gives for descriptor i that match no pattern of sil
Unsuppressed(i, sil) ==
    { l \in Range(parse_result(Script_run(scripts[i]))) : ~Matches(l, sil) }

NonEmptyLine(l) == l # <<>>

HasDuplicate(q) == \E j, k \in 1..Len(q) : j # k /\ q[j] = q[k]

\* C1: results reach the consumer in completion order: if A's future finished
\* before B's and B's Result was retrieved, A's Result was retrieved before it.
C1_CompletionOrder ==
    \A a, b \in Range(completed) :
        (Pos(completed, a) < Pos(completed, b) /\ b \in Range(retrieved))
            => (a \in Range(retrieved) /\ Pos(retrieved, a) < Pos(retrieved, b))

\* C2: once an enabled script has finished with exit code 2 or 3 and has a line
\* no active pattern matches, that line is eventually written to the primary
\* stream, also while another script is still running or never terminates.
C2_WrittenWithoutWaiting ==
    \A i \in 1..MaxScripts :
        (/\ i \in Range(completed)
         /\ scripts[i].kind = "exit"
         /\ scripts[i].exitcode \in {2, 3}
         /\ Unsuppressed(i, silenced) # {})
        ~> (/\ i \in Range(completed)
            /\ Unsuppressed(i, silenced) \subseteq Range(out["stdout"]))

\* C3: when the run of one enabled script fails unexpectedly, every line of
\* every other enabled script whose run succeeds that no active pattern matches
\* is written in that run: at the end of the run none is missing.
C3_FailureDoesNotAbortBatch ==
    (/\ pc \in {"done", "failed"}
     /\ cpu_count > 0
     /\ \E j \in Enabled : scripts[j].kind = "raise")
        => \A i \in Enabled :
              scripts[i].kind = "exit"
                  => Unsuppressed(i, silenced) \subseteq Range(out["stdout"])

\* C4: a line is written to a destination iff the classifier produced it for a
\* retrieved Result and it matches none of the loaded patterns; destinations
\* that are not configured receive nothing; and when the run ends normally the
\* written set is exactly the unsuppressed lines of all enabled scripts.
C4_SuppressionExact ==
    /\ \A d \in Destinations :
          Range(out[d]) =
              IF d \in Range(files)
              THEN { l \in UNION { Range(lines[i]) : i \in Classified } :
                       ~Matches(l, silenced) }
              ELSE {}
    /\ pc = "done" =>
          /\ Classified = Enabled
          /\ Range(out["stdout"]) =
                UNION { Unsuppressed(i, silenced) : i \in Enabled }

\* C4 witness: the run of three scripts exiting 2, 3 (printing x and y) and 0
\* has ended with the pattern x* active: a and y were written to both
\* destinations, and the classified line x was not.
C4_Witness ==
    /\ pc = "done"
    /\ Len(scripts) = 3
    /\ {scripts[i].exitcode : i \in 1..3} = {0, 2, 3}
    /\ silenced = << <<"x", "*">> >>
    /\ <<"x">> \in UNION { Range(lines[i]) : i \in Classified }
    /\ Range(out["stdout"]) = { <<"a">>, <<"y">> }
    /\ Range(out["f"]) = { <<"a">>, <<"y">> }

\* the end-to-end example: scripts exiting 2, 3 (printing x and y) and 0 with
\* no active pattern have written exactly a, x and y
EndToEndExample ==
    /\ pc = "done"
    /\ Len(scripts) = 3
    /\ {scripts[i].exitcode : i \in 1..3} = {0, 2, 3}
    /\ silenced = <<>>
    /\ Range(out["stdout"]) = { <<"a">>, <<"x">>, <<"y">> }

\* C5: for exit code 3 the classifier gives exactly the non-empty lines of the
\* trimmed output, in order, and no empty line is ever written.
C5_NonEmptyLinesOnly ==
    /\ \A i \in Classified :
          scripts[i].exitcode = 3 =>
              lines[i] = SelectSeq(splitlines(strip(scripts[i].output)),
                                   NonEmptyLine)
    /\ \A d \in Destinations : <<>> \notin Range(out[d])

\* C6: for every exit code other than 3 the classified lines depend only on
\* the exit code and the script's name: [name] for 2, nothing for any other.
C6_OtherCodesIgnoreOutput ==
    \A i \in Classified :
        scripts[i].exitcode # 3 =>
            lines[i] = IF scripts[i].exitcode = 2
                       THEN <<stem(scripts[i].path.file)>>
                       ELSE <<>>

\* C6 witness: an exit-2 script that printed output, a script with a negative
\* exit code that printed output and one with a positive code outside {0,2,3}
\* were all classified.
C6_Witness ==
    /\ \E i \in Classified : scripts[i].exitcode = 2 /\ scripts[i].output # <<>>
    /\ \E i \in Classified : scripts[i].exitcode < 0 /\ scripts[i].output # <<>>
    /\ \E i \in Classified : scripts[i].exitcode = 1 /\ scripts[i].output # <<>>

\* C7: no line text is written more than once to the same destination.
C7_Deduplicated == \A d \in Destinations : ~HasDuplicate(out[d])

\* C8: the scripts in flight never exceed the concurrency limit, and a script
\* in flight is neither waiting in the queue nor finished: a worker holds it
\* until it completes.
C8_BoundedInFlight ==
    /\ Cardinality(InFlight) <= cpu_count
    /\ InFlight \cap Range(queue) = {}
    /\ InFlight \cap Range(completed) = {}
    /\ InFlight \subseteq Submitted

\* C8 witness: every worker of a pool of more than one is busy while another
\* submitted script waits for a worker.
C8_Witness ==
    /\ cpu_count > 1
    /\ Cardinality(InFlight) = cpu_count
    /\ queue # <<>>

\* the claims' own reading of a valid pattern: no ":" and not blank
ValidPattern(n) ==
    /\ \A k \in 1..Len(n) : n[k] # ":"
    /\ \E k \in 1..Len(n) : n[k] \notin Whitespace

\* C9: after a successful add(p, d), a load returns, for that entry, exactly p
\* as long as the expiry it wrote has not passed (expires_at >= now), and
\* nothing once it has; the entries that were there before are not affected.
C9_AddLoadRoundTrip ==
    (last.cmd = "add" /\ ValidPattern(last.name)) =>
        /\ file.exists
        /\ load(file) = load(last.before)
                          \o (IF last.expires >= Now THEN <<last.name>> ELSE <<>>)

\* C10: add with a pattern that contains ":" or is blank fails and leaves the
\* file as it was (absent stays absent); with a valid pattern it appends
\* exactly one line and changes no line that was there.
C10_AddValidates ==
    last.cmd = "add" =>
        IF ValidPattern(last.name)
        THEN /\ last.status = 0
             /\ file.exists
             /\ Len(FileLines(file.text)) = Len(FileLines(last.before.text)) + 1
             /\ SubSeq(FileLines(file.text), 1, Len(FileLines(last.before.text)))
                    = FileLines(last.before.text)
        ELSE /\ last.status = 1
             /\ file = last.before

\* the text holds a character that is not whitespace
HasContent(text) == \E k \in 1..Len(text) : text[k] \notin Whitespace

IsDigit(c) == c \in {"0", "1", "2", "3", "4", "5", "6", "7", "8", "9"}

\* a trimmed line of the form pattern:digits with a pattern that is not empty
WellFormed(l) ==
    \E k \in 2..(Len(l) - 1) :
        /\ l[k] = ":"
        /\ \A j \in 1..(k - 1) : l[j] # ":"
        /\ \A j \in (k + 1)..Len(l) : IsDigit(l[j])

PatternOf(l) == SubSeq(l, 1, find(l, ":") - 1)

EpochOf(l) == int(SubSeq(l, find(l, ":") + 1, Len(l)))

\* the patterns of the well-formed lines of ls whose epoch is not before now
RECURSIVE ActivePatterns(_, _)
ActivePatterns(ls, now) ==
    IF ls = <<>> THEN <<>>
    ELSE LET l == strip(Head(ls)) IN
         (IF WellFormed(l) /\ EpochOf(l) >= now THEN <<PatternOf(l)>> ELSE <<>>)
             \o ActivePatterns(Tail(ls), now)

\* what a load of file f at second now is to return
ActiveAt(f, now) ==
    IF f.exists THEN ActivePatterns(FileLines(f.text), now) ELSE <<>>

C12_LoadTolerant ==
    last.cmd = "list" =>
        /\ listed = ActiveAt(last.before, last.at)
        /\ ~last.before.exists => listed = <<>>

\* C12 witness: a load of a file that holds a blank line, a line without ":"
\* and an active entry has returned that entry.
C12_Witness ==
    /\ last.cmd = "list"
    /\ listed # <<>>
    /\ \E l \in Range(FileLines(last.before.text)) : strip(l) = <<>>
    /\ \E l \in Range(FileLines(last.before.text)) :
          strip(l) # <<>> /\ find(l, ":") = 0

\* the lines of descriptor i's Result that match no pattern of sil, in order
UnsuppressedSeq(i, sil) ==
    LET Keep(l) == ~Matches(l, sil)
    IN  SelectSeq(parse_result(Script_run(scripts[i])), Keep)

\* C13: the pattern set of a run is fixed at its start: it is what the one
\* read of the file gave at that moment, no later step changes it (time
\* passing, the run's autoprune, add or reset of another invocation), and
\* every write to a destination is the lines of one Result filtered by it.
C13_FixedAtStart ==
    [][/\ (pc = "load" /\ pc' # "load") => silenced' = ActiveAt(file, Now)
       /\ pc # "load" => silenced' = silenced
       /\ out' # out =>
             \E i \in 1..Len(scripts) :
                 /\ retrieved' = Append(retrieved, i)
                 /\ out'["stdout"] = out["stdout"] \o UnsuppressedSeq(i, silenced)
      ]_vars

\* C13 witness: a line was suppressed by a pattern of the loaded set that the
\* file no longer gives at the time of the write (expired, removed or pruned).
C13_Witness ==
    /\ pc \in {"consume", "done"}
    /\ \E i \in Classified : \E l \in Range(lines[i]) :
          /\ Matches(l, silenced)
          /\ ~Matches(l, load(file))
          /\ l \notin Range(out["stdout"])

\* how many times x occurs in the sequence q
Count(q, x) == Cardinality({ k \in 1..Len(q) : q[k] = x })

\* how many times Script.run was or is to be called for descriptor i
Calls(i) ==
    Count(queue, i) + Count(completed, i) + (IF i \in running THEN 1 ELSE 0)

\* C14 as stated: when the run has ended, exactly one child was spawned for
\* each enabled descriptor and none for a disabled one.
C14_ExactlyOneChild ==
    pc \in {"done", "failed"} =>
        \A i \in 1..Len(scripts) :
            spawned[i] = IF scripts[i].enabled THEN 1 ELSE 0

\* C14 amended: a disabled descriptor is never submitted, never holds a worker
\* and never has a child; no descriptor is submitted or spawned twice; and
\* once the pool was created and every submission is over, Script.run was
\* called exactly once for each enabled descriptor, with exactly one child
\* unless the spawn itself failed.
C14_OneCallPerEnabled ==
    /\ \A i \in 1..Len(scripts) :
          /\ Calls(i) <= 1
          /\ spawned[i] <= 1
          /\ ~scripts[i].enabled => Calls(i) = 0 /\ spawned[i] = 0
    /\ (pc \in {"consume", "done"} \/ (pc = "failed" /\ cpu_count > 0)) =>
          \A i \in Enabled :
              /\ Count(completed, i) = 1
              /\ spawned[i] = IF scripts[i].kind = "raise" THEN 0 ELSE 1

\* C14 witness: a run over a disabled descriptor, a descriptor whose spawn
\* fails and one that exits has ended.
C14_Witness ==
    /\ pc \in {"done", "failed"}
    /\ cpu_count > 0
    /\ \E i \in 1..Len(scripts) : ~scripts[i].enabled
    /\ \E i \in Enabled : scripts[i].kind = "raise" /\ spawned[i] = 0
    /\ \E i \in Enabled : scripts[i].kind = "exit" /\ spawned[i] = 1

\* C15: a call of Script.run whose child exits once its writes are through
\* never gets stuck: until it has returned its Result, the parent or the
\* child can take a step, whatever the child writes to either stream.
C15_RunReturns == proc.pc = "returned" \/ ENABLED PipeNext

\* every enabled script's run returns a Result: it neither raises nor hangs
AllReturn == \A i \in Enabled : scripts[i].kind = "exit"

\* the run command is over, every Result was retrieved and classified exactly
\* once, and the destinations were flushed
TerminatedClean ==
    /\ pc = "done"
    /\ flushed
    /\ \A i \in Enabled :
          /\ Count(completed, i) = 1
          /\ Count(retrieved, i) = 1
          /\ lines[i] = parse_result(Script_run(scripts[i]))
    /\ Range(retrieved) = Enabled

\* a bound on the steps the run command has left
Measure ==
    (CASE pc = "load" -> 6 [] pc = "prepare" -> 5 [] pc = "pool" -> 4
       [] pc = "submit" -> 3 [] pc = "consume" -> 2 [] OTHER -> 0)
    + 5 * (Len(scripts) + 1 - nextIdx) + 4 * Len(queue)
    + 3 * Cardinality(running) + 2 * Len(completed) - Len(retrieved)

\* some step of the run command is possible: the guards of the actions of
\* Next, by position of the main thread
CanStep ==
    \/ pc \in {"load", "prepare", "pool"}
    \/ /\ pc = "submit"
       /\ \/ nextIdx <= Len(scripts)
          \/ queue # <<>> /\ WorkerAvailable
          \/ \E i \in running : scripts[i].kind # "hang"
          \/ queue = <<>> /\ running = {}
    \/ pc = "consume"

\* C16 as stated: if every enabled script's run returns a Result, the run
\* command does not stop before its end, and at its end every Result was
\* classified exactly once and the destinations were flushed.
C16_Terminates ==
    AllReturn =>
        /\ pc \in {"done", "failed"} \/ CanStep
        /\ pc \in {"done", "failed"} => TerminatedClean

\* C16 amended: for the runs whose worker pool can be created, if every
\* enabled script's run returns a Result the run command terminates: every
\* step brings its end nearer, it is never stuck before its end, and at its
\* end every Result was classified exactly once and the destinations flushed.
C16_TerminatesWithPool ==
    /\ [][Measure' < Measure]_vars
    /\ []((AllReturn /\ cpu_count > 0) =>
             /\ pc = "done" \/ CanStep
             /\ pc = "done" => TerminatedClean)

\* C16 witness: a run of three enabled scripts, finishing in another order
\* than they were submitted, has ended.
C16_Witness ==
    /\ AllReturn
    /\ TerminatedClean
    /\ Cardinality(Enabled) = 3
    /\ completed # retrieved

\* C17: every write to a destination is a step of the one consumer of the
\* completion stream: it retrieves one Result, it is no step of a worker
\* (nothing is taken from the queue, started or finished by it), and no
\* worker is running a script while it happens.
C17_OnlyConsumerWrites ==
    [][out' # out =>
          /\ pc = "consume"
          /\ \E i \in Range(completed) : retrieved' = Append(retrieved, i)
          /\ running = {} /\ running' = {}
          /\ queue' = queue /\ completed' = completed /\ spawned' = spawned
      ]_vars

\* C17 witness: with a pool of more than one worker, the Results of three
\* scripts that gave lines were written to both destinations.
C17_Witness ==
    /\ cpu_count > 1
    /\ pc = "done"
    /\ Cardinality({ i \in Classified : lines[i] # <<>> }) = 3
    /\ Len(out["stdout"]) >= 3
    /\ Len(out["f"]) >= 3

\* the classified lines of retrieved descriptor i that no loaded pattern matches
KeptLines(i) ==
    LET Keep(l) == ~Matches(l, silenced)
    IN  SelectSeq(lines[i], Keep)

\* the kept lines of the descriptors of q, one descriptor after the other
RECURSIVE KeptOf(_)
KeptOf(q) == IF q = <<>> THEN <<>> ELSE KeptLines(Head(q)) \o KeptOf(Tail(q))

\* the destinations the command line configures: the primary stream, then the
\* additional file if one is given that is not the primary stream again
Configured == IF fileArg = "f" THEN <<"stdout", "f">> ELSE <<"stdout">>

\* each line of ls written to each destination of fs in turn
RECURSIVE Blocks(_, _)
Blocks(ls, fs) ==
    IF ls = <<>> THEN <<>>
    ELSE [k \in 1..Len(fs) |-> <<fs[k], Head(ls)>>] \o Blocks(Tail(ls), fs)

\* C18: every configured destination holds the same sequence of lines as the
\* primary stream and the others hold nothing; the writes were made line by
\* line, each line to every configured destination in the same order before
\* the next line; and no line was written more often than it was kept, also
\* when the primary stream is given again as the additional file.
C18_SameSequence ==
    /\ \A d \in Destinations :
          out[d] = IF d \in Range(Configured) THEN out["stdout"] ELSE <<>>
    /\ wlog = Blocks(out["stdout"], Configured)
    /\ Len(out["stdout"]) = Len(KeptOf(retrieved))

\* C18 witness: a run with an additional file has ended with at least three
\* lines written and at least one suppressed.
C18_Witness ==
    /\ pc = "done"
    /\ fileArg = "f"
    /\ Len(out["f"]) >= 3
    /\ \E i \in Classified : Len(KeptLines(i)) < Len(lines[i])

\* number of lines written before those of the n-th retrieved descriptor
Offset(n) == Len(KeptOf(SubSeq(retrieved, 1, n - 1)))

\* C19: in each destination the kept lines of each retrieved Result are one
\* contiguous block, in the order the classifier gave them, the blocks follow
\* each other in retrieval order, and nothing else is there.
C19_ContiguousInOrder ==
    \A d \in Range(files) :
        /\ \A n \in 1..Len(retrieved) :
              SubSeq(out[d], Offset(n) + 1,
                     Offset(n) + Len(KeptLines(retrieved[n])))
                  = KeptLines(retrieved[n])
        /\ Len(out[d]) = Offset(Len(retrieved) + 1)

\* C19 witness: two scripts that each gave two kept lines finished in one
\* order and were retrieved in the other, and their lines were written.
C19_Witness ==
    /\ pc = "done"
    /\ completed # retrieved
    /\ Cardinality({ i \in Classified : Len(KeptLines(i)) >= 2 }) >= 2

\* C20: an entry that the latest add appended successfully and whose expiry
\* has not passed is in the file and is returned by a load, whatever steps
\* of a run with or without --autoprune have been taken around the add.
C20_AutopruneKeepsActive ==
    (last.cmd = "add" /\ last.status = 0 /\ last.expires >= Now) =>
        /\ file.exists
        /\ last.name \in Range(load(file))

====
